---- MODULE Spec2Model ----
(***************************************************************************)
(* Model of the Meshcore telemetry scripts.                                *)
(*                                                                         *)
(*   main.py              the session: module-level BME280 setup, then     *)
(*                        main(): subscribe, connect, startup queries,     *)
(*                        the poll loop with its two timers, and the       *)
(*                        disconnect sequence.                             *)
(*   check_i2c_wiring.py  the Bus Probe: create the bus, scan up to three  *)
(*                        times under the bus lock, exit.                  *)
(*                                                                         *)
(* The two scripts are separate processes; SessionSpec and ProbeSpec run   *)
(* one each.                                                               *)
(***************************************************************************)
EXTENDS Integers, Sequences, FiniteSets, TLC

VARIABLES
    \* ---- main.py ----
    pc,               \* position of main() (or of the module-level setup)
    outcome,          \* how main() ended: which handler ran
    bme280_sensor,    \* the module-level sensor handle: None or the address it was built at
    subIdx,           \* how many entries of events_to_monitor have been subscribed
    subscribed,       \* the event kinds handle_event is subscribed for
    calls,            \* the transport calls made so far, in order
    now,              \* the wall clock, time.time(), in seconds
    current_time,     \* main(): current_time of the running tick
    last_sensor_read, \* main(): last_sensor_read
    last_status_log,  \* main(): last_status_log
    loop_count,       \* main(): loop_count
    sigint,           \* the operator interrupt: none, pending (task cancel requested), delivered
    sensorFired,      \* the tick that just ran called read_bme280
    statusFired,      \* the tick that just ran logged the status line
    sensor_data,      \* what read_bme280 returned on that tick
    reads,            \* every read_bme280 call the loop made, in order: its time and result
    statusLogs,       \* the wall-clock time of every status line the loop logged, in order
    slow,             \* how many per-tick sleeps took two seconds instead of one
    interruptedIn,    \* the session state the operator interrupt arrived in, None before it
    connectResult,    \* how connect() ended: none (not called), ok, raises, cancelled
    stopFetchResult,  \* how stop_auto_message_fetching() ended in the disconnect sequence
    disconnectResult, \* how disconnect() ended in the disconnect sequence
    initLog,          \* the addresses the module-level setup tried, in order, each with its outcome
    mainLocked,       \* main.py's bus lock is held
    mainAcquired,     \* how many try_lock() calls of main.py succeeded
    mainUnlocks,      \* how many i2c.unlock() calls main.py made
    \* ---- check_i2c_wiring.py ----
    ppc,              \* position of the script
    i2c,              \* the bus handle: unset, bus, or failed (busio.I2C raised)
    attempt,          \* the for loop's attempt
    locked,           \* the bus lock is held
    devices,          \* the latest scan result
    results,          \* every i2c.scan() call made so far: whether it raised, and what it returned
    delays,           \* how many time.sleep(1) calls were made
    pending,          \* what is unwinding through the finally block
    unlockCalls,      \* how many i2c.unlock() calls were made
    acquired,         \* how many try_lock() calls succeeded
    exitCode,         \* << >> while the script runs, <<code>> once the process has exited
    reported,         \* what the script printed last: none, success, problem
    \* ---- main.py: one call of read_bme280() ----
    rd_pc,            \* position of the call: idle, eval (building the dict), returned
    rd_handle,        \* bme280_sensor as the call sees it
    rd_faults,        \* which of the five driver accesses raise (by position in the dict)
    rd_idx,           \* the dict entry being evaluated
    rd_entries,       \* the keys of the entries evaluated so far
    rd_result         \* what the call returned

sessionVars == <<pc, outcome, bme280_sensor, subIdx, subscribed, calls, now, current_time,
                 last_sensor_read, last_status_log, loop_count, sigint, sensorFired,
                 statusFired, sensor_data, reads, statusLogs, slow, interruptedIn,
                 connectResult, stopFetchResult, disconnectResult, initLog, mainLocked,
                 mainAcquired, mainUnlocks>>
probeVars == <<ppc, i2c, attempt, locked, devices, results, delays, pending, unlockCalls,
               acquired, exitCode, reported>>
readerVars == <<rd_pc, rd_handle, rd_faults, rd_idx, rd_entries, rd_result>>
vars == <<sessionVars, probeVars, readerVars>>

None == "None"

\* ------------------------------------------------------------------ bounds
\* The poll loop is cut after MaxTicks iterations.
MaxTicks == 33
\* At most MaxSlowTicks of the per-tick sleeps overrun to two seconds.
MaxSlowTicks == 2
\* The wall clock when the poll loop is entered (seconds since the epoch).
StartClock == 1700000000

\* ------------------------------------------------------------------ main.py
sensor_interval == 10
status_interval == 30
\* Bus addresses are written as the source writes them.
PrimaryAddress == "0x76"
AlternateAddress == "0x77"

events_to_monitor ==
    << "BATTERY", "DEVICE_INFO", "TELEMETRY_RESPONSE", "CONTACT_MSG_RECV",
       "CHANNEL_MSG_RECV", "CONNECTED", "DISCONNECTED", "NEW_CONTACT",
       "ADVERTISEMENT", "TRACE_DATA", "SELF_INFO", "STATUS_RESPONSE" >>

MonitoredKinds == { events_to_monitor[i] : i \in 1..Len(events_to_monitor) }

\* The outcomes of one attempt to initialise the driver at one address:
\* the constructor raises, the constructor succeeds and the pressure-reference
\* setup or the test read raises, or all three succeed.
InitOutcomes == {"ctor_raises", "read_raises", "ok"}

\* The for loop over [0x76, 0x77] of the module-level setup. The handle is
\* assigned as soon as the constructor returns; a later raise leaves it set.
AfterAddress(handle, address, o) == IF o = "ctor_raises" THEN handle ELSE address

InitSensor(o76, o77) ==
    LET h1 == AfterAddress(None, PrimaryAddress, o76)
    IN  IF o76 = "ok" THEN h1 ELSE AfterAddress(h1, AlternateAddress, o77)

\* Positions of main() before the poll loop.
StartupPcs == {"construct", "subscribe", "connect", "start_fetch", "setup",
               "device_query", "get_bat"}

\* The session states of the specification, read off the position of main().
State ==
    CASE pc \in {"module", "m_lock", "m_scan", "m_init", "m_check", "main"} -> "Idle"
      [] pc \in {"construct", "subscribe", "connect"}     -> "Connecting"
      [] pc \in {"start_fetch", "setup", "device_query", "get_bat"} -> "Connected"
      [] pc \in {"tick", "sleep"}                         -> "Polling"
      [] pc \in {"stop_fetch", "disconnect"}              -> "Disconnecting"
      [] pc \in {"finally", "done"} /\ outcome = "connect_failed" -> "Error"
      [] OTHER                                             -> "Stopped"

SessionInit ==
    /\ pc = "module"
    /\ outcome = "running"
    /\ bme280_sensor = None
    /\ subIdx = 0
    /\ subscribed = {}
    /\ calls = << >>
    /\ now = StartClock
    /\ current_time = 0
    /\ last_sensor_read = 0
    /\ last_status_log = 0
    /\ loop_count = 0
    /\ sigint = "none"
    /\ sensorFired = FALSE
    /\ statusFired = FALSE
    /\ sensor_data = None
    /\ reads = << >>
    /\ statusLogs = << >>
    /\ slow = 0
    /\ interruptedIn = None
    /\ connectResult = "none"
    /\ stopFetchResult = "none"
    /\ disconnectResult = "none"
    /\ initLog = << >>
    /\ mainLocked = FALSE
    /\ mainAcquired = 0
    /\ mainUnlocks = 0

ProbeInit ==
    /\ ppc = "create"
    /\ i2c = "unset"
    /\ attempt = 0
    /\ locked = FALSE
    /\ devices = {}
    /\ results = << >>
    /\ delays = 0
    /\ pending = "none"
    /\ unlockCalls = 0
    /\ acquired = 0
    /\ exitCode = << >>
    /\ reported = "none"

\* The dict literal of read_bme280: each key with the driver attribute its
\* value is read from, in evaluation order (temperature is read twice).
ReadingEntries ==
    << [key |-> "temperature_c", attr |-> "temperature"],
       [key |-> "temperature_f", attr |-> "temperature"],
       [key |-> "humidity",      attr |-> "relative_humidity"],
       [key |-> "pressure_hpa",  attr |-> "pressure"],
       [key |-> "altitude_m",    attr |-> "altitude"] >>

\* "return None"
NullReading == [null |-> TRUE, fields |-> {}]

ReaderInit ==
    /\ rd_pc = "idle"
    /\ rd_handle = None
    /\ rd_faults = {}
    /\ rd_idx = 0
    /\ rd_entries = {}
    /\ rd_result = NullReading

Init == SessionInit /\ ProbeInit /\ ReaderInit

\* A handler of main() ran: control goes to the finally block.
Unwind(how) == pc' = "finally" /\ outcome' = how

\* CancelledError is a BaseException: none of main()'s except clauses
\* (FileNotFoundError, KeyboardInterrupt, Exception) catches it.
Cancelled == Unwind("cancelled") /\ sigint' = "delivered"

\* What the for loop over [0x76, 0x77] tried: 0x76, and 0x77 unless 0x76
\* reached the break.
AddressesTried(o76, o77) ==
    IF o76 = "ok"
    THEN << [address |-> PrimaryAddress, outcome |-> o76] >>
    ELSE << [address |-> PrimaryAddress, outcome |-> o76],
            [address |-> AlternateAddress, outcome |-> o77] >>

\* Module-level BME280 setup, first part: the imports and the I2C interface
\* (board.I2C(), else busio.I2C). An ImportError, or an Exception of the
\* fallback, is logged by the outer handlers and the script goes on without
\* the sensor.
ModuleSetup ==
    /\ pc = "module"
    /\ \E ok \in BOOLEAN : pc' = IF ok THEN "m_lock" ELSE "main"
    /\ UNCHANGED <<outcome, bme280_sensor, subIdx, subscribed, calls,
                   now, current_time, last_sensor_read, last_status_log,
                   loop_count, sigint, sensorFired, statusFired,
                   sensor_data, reads, statusLogs, slow, interruptedIn,
                   connectResult, stopFetchResult, disconnectResult,
                   initLog, mainLocked, mainAcquired, mainUnlocks,
                   probeVars, readerVars>>

\* while not i2c.try_lock(): pass
MainTryLock ==
    /\ pc = "m_lock"
    /\ ~mainLocked
    /\ mainLocked' = TRUE
    /\ mainAcquired' = mainAcquired + 1
    /\ pc' = "m_scan"
    /\ UNCHANGED <<outcome, bme280_sensor, subIdx, subscribed, calls,
                   now, current_time, last_sensor_read, last_status_log,
                   loop_count, sigint, sensorFired, statusFired,
                   sensor_data, reads, statusLogs, slow, interruptedIn,
                   connectResult, stopFetchResult, disconnectResult,
                   initLog, mainUnlocks, probeVars, readerVars>>

\* try: devices = i2c.scan() ... finally: i2c.unlock(). A raise of scan()
\* goes, after the finally, to the outer except Exception: no sensor.
MainScan ==
    /\ pc = "m_scan"
    /\ mainLocked' = FALSE
    /\ mainUnlocks' = mainUnlocks + 1
    /\ \E raises \in BOOLEAN : pc' = IF raises THEN "main" ELSE "m_init"
    /\ UNCHANGED <<outcome, bme280_sensor, subIdx, subscribed, calls,
                   now, current_time, last_sensor_read, last_status_log,
                   loop_count, sigint, sensorFired, statusFired,
                   sensor_data, reads, statusLogs, slow, interruptedIn,
                   connectResult, stopFetchResult, disconnectResult,
                   initLog, mainAcquired, probeVars, readerVars>>

\* for address in [0x76, 0x77]: construct the driver, set the pressure
\* reference, test-read the temperature; break on success.
InitLoop ==
    /\ pc = "m_init"
    /\ \E o76 \in InitOutcomes, o77 \in InitOutcomes :
          /\ bme280_sensor' = InitSensor(o76, o77)
          /\ initLog' = AddressesTried(o76, o77)
    /\ pc' = "m_check"
    /\ UNCHANGED <<outcome, subIdx, subscribed, calls, now,
                   current_time, last_sensor_read, last_status_log,
                   loop_count, sigint, sensorFired, statusFired,
                   sensor_data, reads, statusLogs, slow, interruptedIn,
                   connectResult, stopFetchResult, disconnectResult,
                   mainLocked, mainAcquired, mainUnlocks, probeVars,
                   readerVars>>

\* if bme280_sensor is None: raise Exception(...), which the outer except
\* Exception logs as a warning ("Continuing without BME280 sensor...").
InitCheck ==
    /\ pc = "m_check"
    /\ pc' = "main"
    /\ UNCHANGED <<outcome, bme280_sensor, subIdx, subscribed, calls,
                   now, current_time, last_sensor_read, last_status_log,
                   loop_count, sigint, sensorFired, statusFired,
                   sensor_data, reads, statusLogs, slow, interruptedIn,
                   connectResult, stopFetchResult, disconnectResult,
                   initLog, mainLocked, mainAcquired, mainUnlocks,
                   probeVars, readerVars>>

\* asyncio.run(main()): main() starts.
StartMain ==
    /\ pc = "main"
    /\ pc' = "construct"
    /\ UNCHANGED <<outcome, bme280_sensor, subIdx, subscribed, calls,
                   now, current_time, last_sensor_read, last_status_log,
                   loop_count, sigint, sensorFired, statusFired,
                   sensor_data, reads, statusLogs, slow, interruptedIn,
                   connectResult, stopFetchResult, disconnectResult,
                   initLog, mainLocked, mainAcquired, mainUnlocks,
                   probeVars, readerVars>>

\* SerialConnection, ConnectionManager and MeshCore are constructed.
Construct ==
    /\ pc = "construct"
    /\ \E r \in {"ok", "FileNotFoundError", "Exception"} :
          IF r = "ok" THEN pc' = "subscribe" /\ outcome' = outcome
          ELSE IF r = "FileNotFoundError" THEN Unwind("port_not_found")
          ELSE Unwind("unexpected_error")
    /\ UNCHANGED <<bme280_sensor, subIdx, subscribed, calls, now,
                   current_time, last_sensor_read, last_status_log,
                   loop_count, sigint, sensorFired, statusFired,
                   sensor_data, reads, statusLogs, slow, interruptedIn,
                   connectResult, stopFetchResult, disconnectResult,
                   initLog, mainLocked, mainAcquired, mainUnlocks,
                   probeVars, readerVars>>

\* The subscription loop has gone through all of events_to_monitor.
\* (Faulty variant: the loop stops one entry short.)
SubscribeLoopOffByOne(idx) == idx >= Len(events_to_monitor) - 1
SubscribeLoopDone(idx) == idx = Len(events_to_monitor)

\* One iteration of the subscription loop: meshcore.subscribe(event, handle_event).
Subscribe ==
    /\ pc = "subscribe"
    /\ ~SubscribeLoopDone(subIdx)
    /\ \E raises \in BOOLEAN :
          IF raises
          THEN Unwind("unexpected_error") /\ UNCHANGED <<subIdx, subscribed>>
          ELSE /\ subIdx' = subIdx + 1
               /\ subscribed' = subscribed \cup {events_to_monitor[subIdx + 1]}
               /\ UNCHANGED <<pc, outcome>>
    /\ UNCHANGED <<bme280_sensor, calls, now, current_time,
                   last_sensor_read, last_status_log, loop_count,
                   sigint, sensorFired, statusFired, sensor_data, reads,
                   statusLogs, slow, interruptedIn, connectResult,
                   stopFetchResult, disconnectResult, initLog,
                   mainLocked, mainAcquired, mainUnlocks, probeVars,
                   readerVars>>

\* The loop is over: "Event subscriptions completed".
SubscribeEnd ==
    /\ pc = "subscribe"
    /\ SubscribeLoopDone(subIdx)
    /\ pc' = "connect"
    /\ UNCHANGED <<outcome, bme280_sensor, subIdx, subscribed, calls,
                   now, current_time, last_sensor_read, last_status_log,
                   loop_count, sigint, sensorFired, statusFired,
                   sensor_data, reads, statusLogs, slow, interruptedIn,
                   connectResult, stopFetchResult, disconnectResult,
                   initLog, mainLocked, mainAcquired, mainUnlocks,
                   probeVars, readerVars>>

\* Where main() goes when connect raised: the handler returns.
\* (Faulty variant: the handler lacks the return.)
ConnectFailureFallsThrough == "start_fetch"
AfterConnectFailure == "finally"

\* await meshcore.connect()
Connect ==
    /\ pc = "connect"
    /\ calls' = Append(calls, "connect")
    /\ IF sigint = "pending" THEN Cancelled /\ connectResult' = "cancelled"
       ELSE /\ \E r \in {"ok", "raises"} :
                  /\ connectResult' = r
                  /\ IF r = "ok" THEN pc' = "start_fetch" /\ outcome' = outcome
                     ELSE pc' = AfterConnectFailure /\ outcome' = "connect_failed"
            /\ sigint' = sigint
    /\ UNCHANGED <<bme280_sensor, subIdx, subscribed, now, current_time,
                   last_sensor_read, last_status_log, loop_count,
                   sensorFired, statusFired, sensor_data, reads,
                   statusLogs, slow, interruptedIn, stopFetchResult,
                   disconnectResult, initLog, mainLocked, mainAcquired,
                   mainUnlocks, probeVars, readerVars>>

\* await meshcore.start_auto_message_fetching(): a raise is logged as a warning.
StartFetch ==
    /\ pc = "start_fetch"
    /\ calls' = Append(calls, "start_auto_message_fetching")
    /\ IF sigint = "pending" THEN Cancelled
       ELSE /\ \E r \in {"ok", "raises"} : pc' = "setup"
            /\ UNCHANGED <<outcome, sigint>>
    /\ UNCHANGED <<bme280_sensor, subIdx, subscribed, now, current_time,
                   last_sensor_read, last_status_log, loop_count,
                   sensorFired, statusFired, sensor_data, reads,
                   statusLogs, slow, interruptedIn, connectResult,
                   stopFetchResult, disconnectResult, initLog,
                   mainLocked, mainAcquired, mainUnlocks, probeVars,
                   readerVars>>

\* DeviceCommands is imported and wired up, then await asyncio.sleep(1).
CommandSetup ==
    /\ pc = "setup"
    /\ \E raises \in BOOLEAN :
          IF raises THEN Unwind("unexpected_error") /\ sigint' = sigint
          ELSE IF sigint = "pending" THEN Cancelled
          ELSE pc' = "device_query" /\ UNCHANGED <<outcome, sigint>>
    /\ UNCHANGED <<bme280_sensor, subIdx, subscribed, calls, now,
                   current_time, last_sensor_read, last_status_log,
                   loop_count, sensorFired, statusFired, sensor_data,
                   reads, statusLogs, slow, interruptedIn,
                   connectResult, stopFetchResult, disconnectResult,
                   initLog, mainLocked, mainAcquired, mainUnlocks,
                   probeVars, readerVars>>

\* A startup query under asyncio.wait_for(..., 10): a timeout or a raise is
\* logged as a warning. The device query is followed by await asyncio.sleep(1).
StartupQuery(at, name, next) ==
    /\ pc = at
    /\ calls' = Append(calls, name)
    /\ IF sigint = "pending" THEN Cancelled
       ELSE /\ \E r \in {"ok", "timeout", "raises"} : pc' = next
            /\ UNCHANGED <<outcome, sigint>>
    /\ UNCHANGED <<bme280_sensor, subIdx, subscribed, now, current_time,
                   last_sensor_read, last_status_log, loop_count,
                   sensorFired, statusFired, sensor_data, reads,
                   statusLogs, slow, interruptedIn, connectResult,
                   stopFetchResult, disconnectResult, initLog,
                   mainLocked, mainAcquired, mainUnlocks, probeVars,
                   readerVars>>

DeviceQuery == StartupQuery("device_query", "send_device_query", "get_bat")
BatteryQuery == StartupQuery("get_bat", "get_bat", "tick")

\* ------------------------------------------------------------ the poll loop
\* (current_time - last_status_log) >= status_interval
StatusDue(t, last) == t - last >= status_interval

\* bme280_sensor and (current_time - last_sensor_read) >= sensor_interval
\* (Faulty variant: > in place of >=.)
SensorDueStrict(handle, t, last) == handle # None /\ t - last > sensor_interval
SensorDue(handle, t, last) == handle # None /\ t - last >= sensor_interval

\* last_status_log after the status block of a tick.
NextStatusTimer(due, t, last) == IF due THEN t ELSE last

\* last_sensor_read after the sensor block of a tick: the assignment is outside
\* "if sensor_data", so it is made whatever read_bme280 returned.
\* (Faulty variant: the assignment moved inside "if sensor_data".)
NextSensorTimerOnSuccess(due, data, t, last) == IF due /\ data # None THEN t ELSE last
NextSensorTimer(due, data, t, last) == IF due THEN t ELSE last

\* One iteration of the while True loop up to its await asyncio.sleep(1).
\* is_connected() is called only in the status block and may raise; the loop's
\* try has no except Exception, so that goes to main()'s outer handler.
\* read_bme280 catches every Exception itself and returns None then.
Tick ==
    /\ pc = "tick"
    /\ loop_count < MaxTicks
    /\ loop_count' = loop_count + 1
    /\ current_time' = now
    /\ \E connRaises \in BOOLEAN, data \in {"reading", None} :
          LET statusDue == StatusDue(now, last_status_log)
              sensorDue == SensorDue(bme280_sensor, now, last_sensor_read)
              read      == IF sensorDue THEN data ELSE None
          IN  IF statusDue /\ connRaises
              THEN /\ Unwind("unexpected_error")
                   /\ statusFired' = FALSE
                   /\ sensorFired' = FALSE
                   /\ sensor_data' = None
                   /\ UNCHANGED <<last_status_log, last_sensor_read, reads, statusLogs>>
              ELSE /\ pc' = "sleep"
                   /\ outcome' = outcome
                   /\ statusFired' = statusDue
                   /\ last_status_log' = NextStatusTimer(statusDue, now, last_status_log)
                   /\ sensorFired' = sensorDue
                   /\ sensor_data' = read
                   /\ last_sensor_read' = NextSensorTimer(sensorDue, read, now, last_sensor_read)
                   /\ reads' = IF sensorDue
                               THEN Append(reads, [t |-> now, data |-> read])
                               ELSE reads
                   /\ statusLogs' = IF statusDue THEN Append(statusLogs, now) ELSE statusLogs
    /\ UNCHANGED <<bme280_sensor, subIdx, subscribed, calls, now,
                   sigint, slow, interruptedIn, connectResult,
                   stopFetchResult, disconnectResult, initLog,
                   mainLocked, mainAcquired, mainUnlocks, probeVars,
                   readerVars>>

\* await asyncio.sleep(1): the clock moves on by one second, or by two when the
\* sleep overruns. A pending cancellation is raised here as CancelledError.
Sleep ==
    /\ pc = "sleep"
    /\ IF sigint = "pending"
       THEN Cancelled /\ UNCHANGED <<now, slow>>
       ELSE /\ \E d \in {1, 2} :
                  /\ d = 2 => slow < MaxSlowTicks
                  /\ now' = now + d
                  /\ slow' = IF d = 2 THEN slow + 1 ELSE slow
            /\ pc' = "tick"
            /\ UNCHANGED <<outcome, sigint>>
    /\ UNCHANGED <<bme280_sensor, subIdx, subscribed, calls,
                   current_time, last_sensor_read, last_status_log,
                   loop_count, sensorFired, statusFired, sensor_data,
                   reads, statusLogs, interruptedIn, connectResult,
                   stopFetchResult, disconnectResult, initLog,
                   mainLocked, mainAcquired, mainUnlocks, probeVars,
                   readerVars>>

\* ------------------------------------------------------ the operator interrupt
\* asyncio.run(main()) delivers SIGINT in one of two ways, depending on the
\* interpreter: KeyboardInterrupt raised in the code that is running (the default
\* handler), or the main task cancelled (asyncio.run's own handler), which raises
\* CancelledError at the await the task is suspended at, or reaches next. A task
\* suspended at an await gets CancelledError under both.

\* Where the loop's except KeyboardInterrupt leads: "if meshcore:" holds (the
\* client was built before the loop), and stop-fetch is the sequence's first step.
DisconnectSequenceStart == "stop_fetch"

\* The interrupt arrives before the poll loop.
InterruptStartup ==
    /\ pc \in StartupPcs
    /\ sigint = "none"
    /\ interruptedIn' = State
    /\ \/ Unwind("interrupted_startup") /\ sigint' = "delivered"
       \/ sigint' = "pending" /\ UNCHANGED <<pc, outcome>>
    /\ UNCHANGED <<bme280_sensor, subIdx, subscribed, calls, now,
                   current_time, last_sensor_read, last_status_log,
                   loop_count, sensorFired, statusFired, sensor_data,
                   reads, statusLogs, slow, connectResult,
                   stopFetchResult, disconnectResult, initLog,
                   mainLocked, mainAcquired, mainUnlocks, probeVars,
                   readerVars>>

\* The interrupt arrives while the loop body runs: KeyboardInterrupt is raised in
\* it and the loop's except KeyboardInterrupt leads to the disconnect sequence,
\* or the task is cancelled and the body runs on to its sleep.
InterruptTick ==
    /\ pc = "tick"
    /\ sigint = "none"
    /\ interruptedIn' = State
    /\ \/ pc' = DisconnectSequenceStart /\ sigint' = "delivered"
       \/ pc' = pc /\ sigint' = "pending"
    /\ UNCHANGED <<outcome, bme280_sensor, subIdx, subscribed, calls,
                   now, current_time, last_sensor_read, last_status_log,
                   loop_count, sensorFired, statusFired, sensor_data,
                   reads, statusLogs, slow, connectResult,
                   stopFetchResult, disconnectResult, initLog,
                   mainLocked, mainAcquired, mainUnlocks, probeVars,
                   readerVars>>

\* The interrupt arrives while main() is suspended at the per-tick sleep.
InterruptSleep ==
    /\ pc = "sleep"
    /\ sigint = "none"
    /\ interruptedIn' = State
    /\ Cancelled
    /\ UNCHANGED <<bme280_sensor, subIdx, subscribed, calls, now,
                   current_time, last_sensor_read, last_status_log,
                   loop_count, sensorFired, statusFired, sensor_data,
                   reads, statusLogs, slow, connectResult,
                   stopFetchResult, disconnectResult, initLog,
                   mainLocked, mainAcquired, mainUnlocks, probeVars,
                   readerVars>>

\* --------------------------------------------------- the disconnect sequence
\* Where main() goes after stop_auto_message_fetching under wait_for(..., 3):
\* the inner try catches a raise and the timeout alike.
\* (Faulty variant: no inner try, so a failure skips the disconnect.)
AfterStopFetchPropagates(r) == IF r = "ok" THEN "disconnect" ELSE "finally"
AfterStopFetch(r) == "disconnect"

StopFetch ==
    /\ pc = "stop_fetch"
    /\ calls' = Append(calls, "stop_auto_message_fetching")
    /\ \E r \in {"ok", "timeout", "raises"} :
          /\ stopFetchResult' = r
          /\ pc' = AfterStopFetch(r)
          /\ outcome' = IF AfterStopFetch(r) = "finally" THEN "stopped" ELSE outcome
    /\ UNCHANGED <<bme280_sensor, subIdx, subscribed, now, current_time,
                   last_sensor_read, last_status_log, loop_count,
                   sigint, sensorFired, statusFired, sensor_data, reads,
                   statusLogs, slow, interruptedIn, connectResult,
                   disconnectResult, initLog, mainLocked, mainAcquired,
                   mainUnlocks, probeVars, readerVars>>

\* await asyncio.wait_for(meshcore.disconnect(), timeout=5): a raise or the
\* timeout is logged by the outer except Exception of the sequence.
Disconnect ==
    /\ pc = "disconnect"
    /\ calls' = Append(calls, "disconnect")
    /\ \E r \in {"ok", "timeout", "raises"} : disconnectResult' = r /\ Unwind("stopped")
    /\ UNCHANGED <<bme280_sensor, subIdx, subscribed, now, current_time,
                   last_sensor_read, last_status_log, loop_count,
                   sigint, sensorFired, statusFired, sensor_data, reads,
                   statusLogs, slow, interruptedIn, connectResult,
                   stopFetchResult, initLog, mainLocked, mainAcquired,
                   mainUnlocks, probeVars, readerVars>>

\* The finally block of main(): "Meshcore Telemetry Reader Stopped".
Finally ==
    /\ pc = "finally"
    /\ pc' = "done"
    /\ UNCHANGED <<outcome, bme280_sensor, subIdx, subscribed, calls,
                   now, current_time, last_sensor_read, last_status_log,
                   loop_count, sigint, sensorFired, statusFired,
                   sensor_data, reads, statusLogs, slow, interruptedIn,
                   connectResult, stopFetchResult, disconnectResult,
                   initLog, mainLocked, mainAcquired, mainUnlocks,
                   probeVars, readerVars>>

SessionNext ==
    \/ ModuleSetup
    \/ MainTryLock
    \/ MainScan
    \/ InitLoop
    \/ InitCheck
    \/ StartMain
    \/ Construct
    \/ Subscribe
    \/ SubscribeEnd
    \/ Connect
    \/ StartFetch
    \/ CommandSetup
    \/ DeviceQuery
    \/ BatteryQuery
    \/ Tick
    \/ Sleep
    \/ InterruptStartup
    \/ InterruptTick
    \/ InterruptSleep
    \/ StopFetch
    \/ Disconnect
    \/ Finally

SessionSpec == Init /\ [][SessionNext]_vars

\* ------------------------------------------------------ check_i2c_wiring.py
\* The addresses a scan can report: the sensor's two, a display's, another device's.
Addrs == {"0x76", "0x77", "0x3C", "0x10"}

\* 0x76 in devices or 0x77 in devices
HasSensor(devs) == "0x76" \in devs \/ "0x77" \in devs

\* for attempt in range(3)
\* (Faulty variant: one attempt too many.)
LoopContinuesOneMore(att) == att <= 3
LoopContinues(att) == att < 3

\* Whether the sensor-found branch is taken: the check is inside "if devices:".
SensorFound(devs) == devs # {} /\ HasSensor(devs)

\* The lock after the finally block of an attempt: i2c.unlock() runs whatever is
\* unwinding through it (nothing, the raise of scan(), the SystemExit of exit(0)).
\* (Faulty variant: the unlock placed after the try instead of in a finally.)
ReleaseOnlyWithoutRaise(held, unwinding) == IF unwinding = "raise" THEN held ELSE FALSE
ReleaseInFinally(held, unwinding) == FALSE

\* The exit code when the script ends out of an attempt: exit(0) gives 0, an
\* uncaught exception of scan() ends the interpreter with 1.
\* (Faulty variant: the SystemExit of exit(0) is lost on the way out.)
ExitCodeIgnoresExit(unwinding) == 1
ExitCodeOf(unwinding) == IF unwinding = "exit0" THEN 0 ELSE 1

\* busio.I2C(board.SCL, board.SDA): on any Exception the script prints and exit(1).
CreateBus ==
    /\ ppc = "create"
    /\ \E ok \in BOOLEAN :
          IF ok THEN i2c' = "bus" /\ ppc' = "loop" /\ exitCode' = exitCode
          ELSE i2c' = "failed" /\ ppc' = "exited" /\ exitCode' = <<1>>
    /\ UNCHANGED <<attempt, locked, devices, results, delays, pending,
                   unlockCalls, acquired, reported, sessionVars,
                   readerVars>>

\* The head of the for loop and the retry delay: time.sleep(1) before every
\* attempt but the first.
LoopHead ==
    /\ ppc = "loop"
    /\ IF LoopContinues(attempt)
       THEN /\ delays' = IF attempt > 0 THEN delays + 1 ELSE delays
            /\ ppc' = "lock"
       ELSE /\ delays' = delays
            /\ ppc' = "report"
    /\ UNCHANGED <<i2c, attempt, locked, devices, results, pending,
                   unlockCalls, acquired, exitCode, reported,
                   sessionVars, readerVars>>

\* while not i2c.try_lock(): pass -- spins while the lock is held.
TryLock ==
    /\ ppc = "lock"
    /\ ~locked
    /\ locked' = TRUE
    /\ acquired' = acquired + 1
    /\ ppc' = "scan"
    /\ UNCHANGED <<i2c, attempt, devices, results, delays, pending,
                   unlockCalls, exitCode, reported, sessionVars,
                   readerVars>>

\* devices = i2c.scan(): returns a list of addresses, or raises.
Scan ==
    /\ ppc = "scan"
    /\ \/ \E devs \in SUBSET Addrs :
             /\ devices' = devs
             /\ results' = Append(results, [raised |-> FALSE, devices |-> devs])
             /\ pending' = pending
             /\ ppc' = "classify"
       \/ /\ results' = Append(results, [raised |-> TRUE, devices |-> {}])
          /\ pending' = "raise"
          /\ ppc' = "finally"
          /\ devices' = devices
    /\ UNCHANGED <<i2c, attempt, locked, delays, unlockCalls, acquired,
                   exitCode, reported, sessionVars, readerVars>>

\* The body of the try after the scan: the addresses are printed; when the
\* sensor is among them the script prints SUCCESS, calls i2c.unlock() and exit(0).
Classify ==
    /\ ppc = "classify"
    /\ IF SensorFound(devices)
       THEN /\ reported' = "success"
            /\ locked' = FALSE
            /\ unlockCalls' = unlockCalls + 1
            /\ pending' = "exit0"
       ELSE /\ pending' = "none"
            /\ UNCHANGED <<reported, locked, unlockCalls>>
    /\ ppc' = "finally"
    /\ UNCHANGED <<i2c, attempt, devices, results, delays, acquired,
                   exitCode, sessionVars, readerVars>>

\* finally: i2c.unlock(), then whatever was unwinding goes on: the next
\* attempt, the exit, or the uncaught exception. On the sensor-found path this
\* is the second unlock() of the attempt; unlock() of a lock that is not held
\* leaves it free and does not raise.
FinallyBlock ==
    /\ ppc = "finally"
    /\ locked' = ReleaseInFinally(locked, pending)
    /\ unlockCalls' = unlockCalls + 1
    /\ IF pending = "none"
       THEN /\ attempt' = attempt + 1
            /\ ppc' = "loop"
            /\ exitCode' = exitCode
       ELSE /\ attempt' = attempt
            /\ ppc' = "exited"
            /\ exitCode' = <<ExitCodeOf(pending)>>
    /\ pending' = "none"
    /\ UNCHANGED <<i2c, devices, results, delays, acquired, reported,
                   sessionVars, readerVars>>

\* After the loop: "PROBLEM: BME280 not detected on I2C bus" and the
\* troubleshooting steps; the script then runs off its end.
Report ==
    /\ ppc = "report"
    /\ reported' = "problem"
    /\ exitCode' = <<0>>
    /\ ppc' = "exited"
    /\ UNCHANGED <<i2c, attempt, locked, devices, results, delays,
                   pending, unlockCalls, acquired, sessionVars,
                   readerVars>>

ProbeNext ==
    \/ CreateBus
    \/ LoopHead
    \/ TryLock
    \/ Scan
    \/ Classify
    \/ FinallyBlock
    \/ Report

ProbeSpec == Init /\ [][ProbeNext]_vars

\* ===================================================================== claims
Last(seq) == seq[Len(seq)]
StopFetchCall == "stop_auto_message_fetching"
Called(op) == \E i \in 1..Len(calls) : calls[i] = op
\* The calls made from position i on.
CallsFrom(i) == SubSeq(calls, i, Len(calls))
\* The index of the stop-fetch call of the disconnect sequence (the one after
\* the poll loop; the start call at startup has another name).
StopFetchAt == CHOOSE i \in 1..Len(calls) : calls[i] = StopFetchCall
\* Ticks counted from 0 at the first iteration of the poll loop.
TickNo == loop_count - 1

\* C1: whenever the operator interrupt arrives while the session is in Polling
\* (in the loop body or suspended at the per-tick sleep), main() ends only
\* after the disconnect sequence: stop-fetch, then disconnect, were attempted,
\* and the interrupt is not left without a disconnect attempt. (Runs that a
\* raise of is_connected() ended are left out: they are C3's.)
C1_InterruptUnwindsIntoDisconnect ==
    (interruptedIn = "Polling" /\ pc = "done" /\ outcome # "unexpected_error")
        => /\ outcome = "stopped"
           /\ Len(calls) >= 2
           /\ CallsFrom(Len(calls) - 1) = <<StopFetchCall, "disconnect">>

\* C2: once the disconnect sequence has started, stop-fetch is attempted first
\* and disconnect right after it, whatever stop-fetch did (returned, raised,
\* timed out); whatever either step did, main() goes on to its finally block
\* ("Stopped") as a normal end, never through an error handler.
C2_StopFetchThenDisconnect ==
    /\ pc = "disconnect" => Len(calls) >= 1 /\ Last(calls) = StopFetchCall
    /\ stopFetchResult # "none" =>
          /\ Called(StopFetchCall)
          /\ pc \in {"disconnect", "finally", "done"}
          /\ pc \in {"finally", "done"} =>
                /\ CallsFrom(StopFetchAt) = <<StopFetchCall, "disconnect">>
                /\ disconnectResult # "none"
                /\ outcome = "stopped"
    /\ Called("disconnect") => stopFetchResult # "none"

\* C2's case: stop-fetch raised (or timed out), disconnect was still attempted
\* and failed too, and main() reached "Stopped".
C2_Witness ==
    /\ pc = "done"
    /\ stopFetchResult \in {"raises", "timeout"}
    /\ disconnectResult = "raises"
    /\ Last(calls) = "disconnect"
    /\ outcome = "stopped"

\* C3: in every run where connect succeeded, the session reaches Stopped only
\* after a disconnect attempt: no failure raised after connect ends the
\* session without one. (Stated for runs without any operator interrupt.)
C3_StoppedOnlyAfterDisconnect ==
    (connectResult = "ok" /\ pc = "done" /\ sigint = "none") => Called("disconnect")

\* C4: handle_event is subscribed for all twelve monitored event kinds before
\* connect is invoked: no state has connect called and a kind not subscribed.
C4_SubscribedBeforeConnect ==
    /\ Cardinality(MonitoredKinds) = 12
    /\ (pc = "connect" \/ connectResult # "none" \/ Called("connect"))
          => subscribed = MonitoredKinds

\* C4's case: connect has been called.
C4_Witness == Called("connect") /\ connectResult = "ok" /\ Cardinality(subscribed) = 12

\* C5: if connect fails, main() reports it and returns (the terminal Error
\* state): message fetching is not started, no startup query is issued, the
\* poll loop is never entered and the sensor reader is never invoked.
C5_ConnectFailureIsTerminal ==
    connectResult = "raises" =>
        /\ State = "Error"
        /\ pc \in {"finally", "done"}
        /\ outcome = "connect_failed"
        /\ calls = <<"connect">>
        /\ loop_count = 0
        /\ reads = << >>
        /\ statusLogs = << >>

\* C5's case: connect raised and main() has ended.
C5_Witness == connectResult = "raises" /\ pc = "done"

\* C6: at most one sensor read per elapse of the sensor interval, whatever the
\* read returned: any two consecutive reads are at least sensor_interval
\* apart, a tick reads at most once, and a read that returned None sets
\* last_sensor_read to the tick's time exactly as a successful one does.
C6_OneReadPerInterval ==
    /\ \A i \in 2..Len(reads) : reads[i].t - reads[i - 1].t >= sensor_interval
    /\ (pc = "sleep" /\ sensorFired) =>
          /\ last_sensor_read = current_time
          /\ Last(reads) = [t |-> current_time, data |-> sensor_data]
    /\ reads # << >> => last_sensor_read = Last(reads).t
    /\ reads = << >> => last_sensor_read = 0

\* C6's case: a read failed and the next read came a full interval later.
C6_Witness ==
    /\ Len(reads) >= 2
    /\ reads[1].data = None
    /\ reads[2].t - reads[1].t >= sensor_interval

\* C7 as stated: with ticks one second apart the sensor action fires at ticks
\* 10, 20, 30, ... and at no other tick, the status action at ticks 30, 60,
\* ... and at no other tick.
C7_FiresOnlyAtMultiples ==
    (pc = "sleep" /\ slow = 0 /\ bme280_sensor # None) =>
        /\ sensorFired <=> (TickNo > 0 /\ TickNo % sensor_interval = 0)
        /\ statusFired <=> (TickNo > 0 /\ TickNo % status_interval = 0)

\* C7 amended: with ticks one second apart, counted from 0 at the first
\* iteration, the sensor action (when the sensor handle is set) fires at ticks
\* 0, 10, 20, 30, ... and at no other tick, the status action at ticks 0, 30,
\* ... and at no other tick; and each timer's timestamp is the time of its own
\* action's latest firing (its initial 0 before), so firing one never changes
\* the other's.
C7_FiresFromFirstTick ==
    /\ (pc = "sleep" /\ slow = 0) =>
          /\ sensorFired <=> (bme280_sensor # None /\ TickNo % sensor_interval = 0)
          /\ statusFired <=> (TickNo % status_interval = 0)
    /\ last_sensor_read = IF reads = << >> THEN 0 ELSE Last(reads).t
    /\ last_status_log = IF statusLogs = << >> THEN 0 ELSE Last(statusLogs)

\* C7's case: tick 30, reached in one-second steps, where both actions fire.
C7_Witness ==
    /\ pc = "sleep"
    /\ slow = 0
    /\ TickNo = 30
    /\ sensorFired
    /\ statusFired
    /\ Len(reads) = 4
    /\ Len(statusLogs) = 2

\* ----------------------------------------------------------- Bus Probe claims
\* Scan i returned and its result holds the sensor.
Sighting(i) == ~results[i].raised /\ HasSensor(results[i].devices)
SawSensor == \E i \in 1..Len(results) : Sighting(i)
ScanRaised == \E i \in 1..Len(results) : results[i].raised
\* The scripted run [empty, empty, {0x76}].
ThirdTimeLucky ==
    << [raised |-> FALSE, devices |-> {}], [raised |-> FALSE, devices |-> {}],
       [raised |-> FALSE, devices |-> {"0x76"}] >>

\* C8 as stated: whenever no attempt sees the sensor, the probe performs
\* exactly 3 scans and then reports failure with the troubleshooting text.
C8_AlwaysThreeScansWithoutSighting ==
    (ppc = "exited" /\ i2c = "bus" /\ ~SawSensor)
        => Len(results) = 3 /\ reported = "problem"

\* C8 amended: at most 3 scans, a 1-second delay before each attempt after the
\* first; no scan follows the first sighting of 0x76 or 0x77 (the probe exits
\* with SUCCESS); when every scan returns and none sees the sensor there are
\* exactly 3 scans and then the troubleshooting text; a scan that raises ends
\* the probe at that attempt without the text.
C8_BoundedRetries ==
    /\ Len(results) <= 3
    /\ delays = IF ppc \in {"lock", "scan"}
                THEN Len(results)
                ELSE (IF Len(results) = 0 THEN 0 ELSE Len(results) - 1)
    /\ \A i \in 1..(Len(results) - 1) : ~Sighting(i) /\ ~results[i].raised
    /\ (ppc = "exited" /\ SawSensor) => reported = "success"
    /\ (ppc = "exited" /\ i2c = "bus" /\ ~SawSensor /\ ~ScanRaised)
          => Len(results) = 3 /\ reported = "problem"
    /\ reported = "problem" => Len(results) = 3 /\ ~SawSensor /\ ~ScanRaised
    /\ (ppc = "exited" /\ ScanRaised) => reported = "none"

\* C8's case: [empty, empty, {0x76}] succeeds on attempt 3 with exactly 3 scans
\* and 2 delays.
C8_Witness ==
    /\ ppc = "exited"
    /\ results = ThirdTimeLucky
    /\ delays = 2
    /\ reported = "success"

\* C9: the exit code is 0 on every run in which a scan finds the sensor, and 1
\* when the bus handle cannot be created.
C9_ExitCodes ==
    /\ (ppc = "exited" /\ SawSensor) => exitCode = <<0>>
    /\ i2c = "failed" => ppc = "exited" /\ exitCode = <<1>> /\ results = << >>
    /\ ppc = "exited" <=> exitCode # << >>

\* C9's case: the sensor was found on a retry and the process has exited.
C9_Witness == ppc = "exited" /\ SawSensor /\ Len(results) = 2 /\ exitCode = <<0>>

\* C10: every attempt that acquired the bus lock has released it when the
\* attempt ends, whether the scan returned devices, returned nothing, found
\* the sensor (success exit) or raised: the lock is held only between try_lock
\* and the attempt's finally block.
C10_LockReleasedPerAttempt ==
    /\ locked => ppc \in {"scan", "classify", "finally"}
    /\ ppc \in {"loop", "lock", "report", "exited"} => ~locked
    /\ ppc \in {"loop", "report"} => acquired = attempt
    /\ acquired = Len(results) + (IF ppc = "scan" THEN 1 ELSE 0)

\* C10's case: the scan raised on a retry; the lock was taken twice and is free.
C10_Witness ==
    /\ ppc = "exited"
    /\ ScanRaised
    /\ acquired = 2
    /\ ~locked

\* ------------------------------------------------------- main.py: read_bme280
\* The handles a call can find in bme280_sensor.
Handles == {None, PrimaryAddress, AlternateAddress}

\* What read_bme280 returns when a driver access raises while the dict is being
\* built: the except clause logs and returns None; the entries evaluated so far
\* are dropped with the unfinished dict.
\* (Faulty variant: the entries read so far are returned.)
PartialOnRaise(entries) == [null |-> FALSE, fields |-> entries]
ResultOnRaise(entries) == NullReading

\* What read_bme280 does on entry: "if bme280_sensor is None: return None".
ReturnsEarly(handle) == handle = None

\* read_bme280() is called.
ReadCall ==
    /\ rd_pc = "idle"
    /\ \E h \in Handles, f \in SUBSET (1..Len(ReadingEntries)) :
          /\ rd_handle' = h
          /\ rd_faults' = f
          /\ IF ReturnsEarly(h)
             THEN rd_pc' = "returned" /\ rd_result' = NullReading /\ rd_idx' = rd_idx
             ELSE rd_pc' = "eval" /\ rd_result' = rd_result /\ rd_idx' = 1
    /\ UNCHANGED <<rd_entries, sessionVars, probeVars>>

\* One entry of the dict literal is evaluated: the driver attribute is read and
\* rounded, or the read raises.
EvalEntry ==
    /\ rd_pc = "eval"
    /\ rd_idx <= Len(ReadingEntries)
    /\ IF rd_idx \in rd_faults
       THEN /\ rd_result' = ResultOnRaise(rd_entries)
            /\ rd_pc' = "returned"
            /\ UNCHANGED <<rd_idx, rd_entries>>
       ELSE /\ rd_entries' = rd_entries \cup {ReadingEntries[rd_idx].key}
            /\ rd_idx' = rd_idx + 1
            /\ UNCHANGED <<rd_pc, rd_result>>
    /\ UNCHANGED <<rd_handle, rd_faults, sessionVars, probeVars>>

\* "return data": every entry was evaluated.
ReadReturn ==
    /\ rd_pc = "eval"
    /\ rd_idx > Len(ReadingEntries)
    /\ rd_result' = [null |-> FALSE, fields |-> rd_entries]
    /\ rd_pc' = "returned"
    /\ UNCHANGED <<rd_handle, rd_faults, rd_idx, rd_entries,
                   sessionVars, probeVars>>

ReaderNext ==
    \/ ReadCall
    \/ EvalEntry
    \/ ReadReturn

ReaderSpec == Init /\ [][ReaderNext]_vars

\* ------------------------------------------------------ Sensor Reader claims
ReadingKeys == { ReadingEntries[i].key : i \in 1..Len(ReadingEntries) }

\* C11: read_bme280 returns None whenever the sensor handle is None; otherwise
\* it is all-or-nothing: if any one driver access raises the result is None,
\* never a partly filled reading, and a result that is not None carries all
\* five fields.
C11_AllOrNothing ==
    /\ ReadingKeys = {"temperature_c", "temperature_f", "humidity", "pressure_hpa", "altitude_m"}
    /\ rd_pc = "returned" =>
          /\ rd_handle = None => rd_result = NullReading
          /\ (rd_handle # None /\ rd_faults # {}) => rd_result = NullReading
          /\ ~rd_result.null => rd_result.fields = ReadingKeys
          /\ (rd_handle # None /\ rd_faults = {}) => ~rd_result.null

\* C11's case: temperature was read (twice), humidity raised, the call
\* returned None.
C11_Witness ==
    /\ rd_pc = "returned"
    /\ rd_handle # None
    /\ rd_faults = {3}
    /\ rd_entries = {"temperature_c", "temperature_f"}
    /\ rd_result = NullReading

\* -------------------------------------------------- sensor initialisation claims
\* Initialisation was attempted and succeeded at no address.
InitFailedEverywhere ==
    /\ initLog # << >>
    /\ \A i \in 1..Len(initLog) : initLog[i].outcome # "ok"

\* C12: initialisation tries 0x76 and then 0x77 and stops at the first address
\* whose initialisation succeeds; if initialisation (construction, pressure
\* reference, test read) fails at both addresses, the sensor handle is None
\* for the whole session (from the end of the setup on) and the poll loop
\* never performs a sensor read.
C12_FailedInitDisablesSensor ==
    /\ initLog # << >> =>
          /\ initLog[1].address = PrimaryAddress
          /\ Len(initLog) <= 2
          /\ Len(initLog) = 2 =>
                initLog[1].outcome # "ok" /\ initLog[2].address = AlternateAddress
    /\ (InitFailedEverywhere /\ pc \notin {"m_init", "m_check"})
          => bme280_sensor = None /\ reads = << >>

\* ------------------------------------------------------------ bus lock claims
\* A script's lock bookkeeping is balanced: every unlock() so far released a
\* lock that was held, one unlock() per successful try_lock().
Balanced(held, acquisitions, unlocks) ==
    unlocks = IF held THEN acquisitions - 1 ELSE acquisitions

\* main.py's scan (and test_bme280.py's, which has the same try/finally shape).
MainLockBalanced == Balanced(mainLocked, mainAcquired, mainUnlocks)

\* C13: the bus lock is balanced in every script: unlock() is called only
\* while the lock is held and exactly once per successful try_lock(), on every
\* path through a scan; no path unlocks twice for one acquisition.
C13_LockBalanced ==
    /\ Balanced(locked, acquired, unlockCalls)
    /\ MainLockBalanced
====
